---- MODULE Spec2Model ----
(***************************************************************************)
(* A model of binary-visualizer: the byte-pair histogram (src/table.rs),   *)
(* the corpus walker, classifier and trainer (src/ml.rs), the older        *)
(* score-array label decoding (src/lib.rs) and the train command           *)
(* (src/main.rs).                                                          *)
(*                                                                         *)
(* Numbers.  A u32 counter is kept as two 16-bit halves <<hi, lo>> so that *)
(* the u32 ceiling 2^32-1 = <<65535, 65535>> is a value of the model.  An  *)
(* f32 natural logarithm is kept in thousandths as an integer (LnMilli):   *)
(* a monotone function with ln(1) = 0 and ln(v) > 0 for v > 1.  An f32     *)
(* quotient is kept as a tagged fraction, with IEEE's 0/0 = NaN and        *)
(* x/0 = +inf for x > 0.                                                   *)
(***************************************************************************)
EXTENDS Integers, Sequences, FiniteSets, TLC

\* ------------------------------------------------------------------ bounds

\* Byte values 0..MaxByte occur in the buffers of the model.
MaxByte == 1
\* Buffers hold at most MaxLen bytes.
MaxLen == 3
\* At most MaxParses parse calls are made on a table between two clear calls.
MaxParses == 2
\* A corpus directory tree holds at most MaxFiles files.
MaxFiles == 5
\* Logits and scores take the values 0..MaxScore.
MaxScore == 1
\* The test partition handed to train holds 1..MaxTest samples.
MaxTest == 2
\* The train command calls train at most MaxAttempts times.
MaxAttempts == 2

\* ---------------------------------------------------------------- constants

\* One half of a u32 counter ranges over 0..LimbMax.
LimbMax == 65535
\* The histogram is 256 x 256; export writes cell (x, y) at y * Side + x.
Side == 256
\* 0.8f32 is Frac08 / 2^MantissaBits exactly; an f32 keeps MantissaBits bits.
Frac08 == 13421773
MantissaBits == 24
\* const N_OUTPUT of ml.rs and lib.rs.
N_OUTPUT == 5
\* const EPOCHS of ml.rs.
EPOCHS == 10
\* The accuracy train requires (final_accuracy < 95.0), and 100%.
MinAccuracy == 95
Full == 100

VARIABLES
    mode,       \* which entry point of the library this behaviour exercises
    dots,       \* BinaryTable.dots: dots[y][x], a u32 as <<hi, lo>>
    max,        \* BinaryTable.max: the largest ln(count) seen, in thousandths
    tensor,     \* the Vec<f32> export() returned for the table as it is, or NoTensor
    parses,     \* the number of parse calls since the table was made or last cleared
    only,       \* the buffer of that parse call when parses = 1, else <<>>
    reused,     \* TRUE once clear() has been called on the table
    wiped,      \* TRUE once clear() has been called on a table that held counts
    buf,        \* the buffer of the parse call in progress
    pos,        \* the number of windows of buf the parse loop has consumed
    start,      \* dots when the parse call in progress began
    prev,       \* dots before the last iteration of the parse loop
    pc,         \* the position of the parse call: "loop" or "done"
    corpus,     \* the directory tree Dataset::collect is given
    todo,       \* the directory entries the walk has still to visit, in order
    files,      \* files: Vec<(FileType, Vec<f32>)> of Dataset::collect
    outcome,    \* "walking", or how collect ended: "ok", "too_small", "io_error", "panic"
    ds,         \* the Dataset collect returned, or NoDataset
    logits,     \* the row forward() returned for the input of predict
    prediction, \* the u32 Network::predict returned, or NoValue
    file_type,  \* FileType::from_prediction(prediction) of ml.rs, or NoValue
    scores,     \* the score array handed to from_prediction of lib.rs
    lib_type,   \* what from_prediction of lib.rs returned for scores, or NoValue
    ppc,        \* the position of the predict command
    threshold,  \* the train command's --accuracy value, in percent
    testCount,  \* test_outputs.dims1() of the Dataset handed to train
    ckpt,       \* the checkpoint file: missing, of mismatched shapes, or parameters
    params,     \* the parameters held by the VarMap of the train call
    tpc,        \* the position of the train command
    epoch,      \* epoch of the loop of train
    final_accuracy, \* final_accuracy of train, a fraction
    result,     \* what the last train call returned: "ok", "training_failed", "error"
    attempts,   \* the number of train calls the train command has made
    gradSteps,  \* the sgd.backward_step calls of this train call
    evals,      \* the test evaluations of this train call
    lastSumOk,  \* sum_ok of the last test evaluation of this train call
    hit100,     \* TRUE once a test evaluation of this train call gave exactly 100%
    stepAfter100, \* TRUE once a gradient step followed such an evaluation
    loadFailed, \* how varmap.load failed in this train call: "no", "missing", "mismatch"
    saveFailed, \* TRUE when varmap.save of this train call failed
    retriedOn   \* what train had returned when main's loop last called it again, or NoValue

tableVars == <<dots, max, tensor, parses, only, reused, wiped>>
loopVars == <<buf, pos, start, prev, pc>>
collectVars == <<corpus, todo, files, outcome, ds>>
predictVars == <<logits, prediction, file_type, scores, lib_type, ppc>>
callVars == <<epoch, final_accuracy, gradSteps, evals, lastSumOk, hit100, stepAfter100,
              loadFailed, saveFailed>>
trainVars == <<threshold, testCount, ckpt, params, tpc, result, attempts, retriedOn, callVars>>
restVars == <<predictVars, trainVars>>

Bytes == 0..MaxByte
Buffers == UNION {[1..n -> Bytes] : n \in 0..MaxLen}

\* ------------------------------------------------------------- u32 and f32

Zero == <<0, 0>>
Ceiling == <<LimbMax, LimbMax>>

CellLeq(a, b) == a[1] < b[1] \/ (a[1] = b[1] /\ a[2] <= b[2])

\* An increment that wraps from the ceiling to 0 (u32::wrapping_add(1)).
saturating_add_wraps(c) ==
    IF c = Ceiling THEN Zero
    ELSE IF c[2] = LimbMax THEN <<c[1] + 1, 0>>
    ELSE <<c[1], c[2] + 1>>

\* u32::saturating_add(1): the ceiling stays, a full low half carries.
saturating_add(c) ==
    IF c = Ceiling THEN Ceiling
    ELSE IF c[2] = LimbMax THEN <<c[1] + 1, 0>>
    ELSE <<c[1], c[2] + 1>>

RECURSIVE Log2Floor(_)
Log2Floor(n) == IF n < 2 THEN 0 ELSE 1 + Log2Floor(n \div 2)

RECURSIVE Pow2(_)
Pow2(k) == IF k = 0 THEN 1 ELSE 2 * Pow2(k - 1)

\* ln of a positive integer below 2^16, in thousandths: 693 per doubling,
\* linear between two powers of two.
LnSmall(v) ==
    LET k == Log2Floor(v)
    IN  693 * k + (693 * (v - Pow2(k))) \div Pow2(k)

\* (value as f32).ln() of a non-zero counter.  A counter of 2^16 or more is
\* read through its high half: the f32 conversion keeps 24 bits.
LnMilli(c) ==
    IF c[1] = 0 THEN LnSmall(c[2])
    ELSE 693 * 16 + LnSmall(c[1])

\* f32 division of two non-negative values.
Nan == [kind |-> "nan", n |-> 0, d |-> 0]
Inf == [kind |-> "inf", n |-> 0, d |-> 0]
F32Zero == [kind |-> "num", n |-> 0, d |-> 1]

RECURSIVE Gcd(_, _)
Gcd(a, b) == IF b = 0 THEN a ELSE Gcd(b, a % b)

\* n / d: a fraction in lowest terms, so that equal values are equal records.
F32Div(n, d) ==
    IF d = 0 THEN (IF n = 0 THEN Nan ELSE Inf)
    ELSE [kind |-> "num", n |-> n \div Gcd(n, d), d |-> d \div Gcd(n, d)]

\* A finite value in [0, 1].
InUnit(t) == t.kind = "num" /\ 0 <= t.n /\ t.n <= t.d

\* ------------------------------------------------------------ BinaryTable

ZeroDots == [y \in Bytes |-> [x \in Bytes |-> Zero]]

\* BinaryTable::new
NewTable == [max |-> 0, dots |-> ZeroDots]

\* A clear that zeroes the cells and keeps max.
ClearKeepsMax(t) == [max |-> t.max, dots |-> ZeroDots]

\* BinaryTable::clear
ClearTable(t) == [max |-> 0, dots |-> ZeroDots]

\* One iteration of the loop of BinaryTable::parse, on the window (xb, yb).
ParseWindow(t, xb, yb) ==
    LET x == xb
        y == yb
        value == saturating_add(t.dots[y][x])
        f == LnMilli(value)
    IN  [dots |-> [t.dots EXCEPT ![y][x] = value],
         max |-> IF value # Zero /\ f > t.max THEN f ELSE t.max]

\* The number of windows of bytes.windows(2).
Windows(bytes) == IF Len(bytes) < 2 THEN 0 ELSE Len(bytes) - 1

RECURSIVE ParseFrom(_, _, _)
ParseFrom(t, bytes, i) ==
    IF i > Windows(bytes) THEN t
    ELSE ParseFrom(ParseWindow(t, bytes[i], bytes[i + 1]), bytes, i + 1)

\* BinaryTable::parse, the whole call.
ParseAll(t, bytes) == ParseFrom(t, bytes, 1)

\* BinaryTable::export: cell (x, y) is written at index y * 256 + x.
Indices == {y * Side + x : y \in Bytes, x \in Bytes}

ExportTable(t) ==
    [i \in Indices |->
        LET y == i \div Side
            x == i % Side
            value == t.dots[y][x]
        IN  IF value = Zero THEN F32Zero ELSE F32Div(LnMilli(value), t.max)]

NoTensor == <<>>

\* ----------------------------------------------- the table as a caller uses it

Table == [max |-> max, dots |-> dots]

LoopIdle == buf = <<>> /\ pos = 0 /\ start = ZeroDots /\ prev = ZeroDots /\ pc = "done"

NoDataset == <<>>

CollectIdle ==
    corpus = <<>> /\ todo = <<>> /\ files = <<>> /\ outcome = "idle" /\ ds = NoDataset

NoValue == "none"

PredictIdle ==
    /\ logits = <<>>
    /\ prediction = NoValue
    /\ file_type = NoValue
    /\ scores = <<>>
    /\ lib_type = NoValue
    /\ ppc = "idle"

\* Parameter values are known by where they began (origin: "random" for the
\* random initialisation of train call number `attempt`, "file" for a
\* checkpoint that existed before the command, "partial" for a VarMap that a
\* failed load left partly overwritten) and the gradient steps taken since.
NoParams == [origin |-> "none", attempt |-> 0, steps |-> 0]

MissingFile == [kind |-> "missing", params |-> NoParams]
MismatchFile == [kind |-> "mismatch", params |-> NoParams]
ParamsFile(p) == [kind |-> "params", params |-> p]

CallIdle ==
    /\ epoch = 0
    /\ final_accuracy = F32Zero
    /\ gradSteps = 0
    /\ evals = 0
    /\ lastSumOk = 0
    /\ hit100 = FALSE
    /\ stepAfter100 = FALSE
    /\ loadFailed = "no"
    /\ saveFailed = FALSE

TrainIdle ==
    /\ threshold = 0
    /\ testCount = 0
    /\ ckpt = MissingFile
    /\ params = NoParams
    /\ tpc = "idle"
    /\ result = NoValue
    /\ attempts = 0
    /\ retriedOn = NoValue
    /\ CallIdle

InitTable ==
    /\ mode = "table"
    /\ dots = NewTable.dots
    /\ max = NewTable.max
    /\ tensor = NoTensor
    /\ parses = 0
    /\ only = <<>>
    /\ reused = FALSE
    /\ wiped = FALSE
    /\ LoopIdle
    /\ CollectIdle
    /\ PredictIdle
    /\ TrainIdle

Clear ==
    /\ mode = "table"
    /\ dots' = ClearTable(Table).dots
    /\ max' = ClearTable(Table).max
    /\ parses' = 0
    /\ only' = <<>>
    /\ reused' = TRUE
    /\ wiped' = (wiped \/ (dots # ZeroDots /\ max > 0))
    /\ tensor' = NoTensor
    /\ UNCHANGED <<restVars, mode, loopVars, collectVars>>

Parse ==
    /\ mode = "table"
    /\ parses < MaxParses
    /\ \E bytes \in Buffers :
        /\ dots' = ParseAll(Table, bytes).dots
        /\ max' = ParseAll(Table, bytes).max
        /\ parses' = parses + 1
        /\ only' = IF parses = 0 THEN bytes ELSE <<>>
    /\ tensor' = NoTensor
    /\ UNCHANGED <<restVars, mode, reused, wiped, loopVars, collectVars>>

Export ==
    /\ mode = "table"
    /\ tensor' = ExportTable(Table)
    /\ UNCHANGED <<restVars, mode, dots, max, parses, only, reused, wiped, loopVars, collectVars>>

vars == <<mode, tableVars, loopVars, collectVars, predictVars, trainVars>>

NextTable == Clear \/ Parse \/ Export

\* ------------------------------------------- one parse call, window by window

\* Counters a table can hold when a parse call begins: dots is a public
\* field, and parse accumulates into whatever the table holds.
StartCells == {<<0, LimbMax>>, <<LimbMax, LimbMax - 1>>, Ceiling}

\* The empty table, and the tables with one counter of StartCells.
StartDots ==
    {ZeroDots} \cup
    {[ZeroDots EXCEPT ![y][x] = c] : y \in Bytes, x \in Bytes, c \in StartCells}

\* max as parse leaves it for a table holding these counters.
MaxOf(d) ==
    LET lns == {0} \cup {LnMilli(d[y][x]) : y \in {b \in Bytes : TRUE},
                                            x \in {b \in Bytes : TRUE}}
    IN  CHOOSE m \in lns : \A l \in lns : l <= m

InitLoop ==
    /\ mode = "parse"
    /\ dots \in StartDots
    /\ max = MaxOf(dots)
    /\ tensor = NoTensor
    /\ parses = 0
    /\ only = <<>>
    /\ reused = FALSE
    /\ wiped = FALSE
    /\ buf \in Buffers
    /\ pos = 0
    /\ start = dots
    /\ prev = dots
    /\ pc = "loop"
    /\ CollectIdle
    /\ PredictIdle
    /\ TrainIdle

\* for window in bytes.windows(2) { ... }: one iteration.
ParseStep ==
    /\ mode = "parse"
    /\ pc = "loop"
    /\ pos < Windows(buf)
    /\ dots' = ParseWindow(Table, buf[pos + 1], buf[pos + 2]).dots
    /\ max' = ParseWindow(Table, buf[pos + 1], buf[pos + 2]).max
    /\ prev' = dots
    /\ pos' = pos + 1
    /\ UNCHANGED <<restVars, mode, tensor, parses, only, reused, wiped, buf, start, pc, collectVars>>

\* The windows are exhausted: parse returns.
ParseReturn ==
    /\ mode = "parse"
    /\ pc = "loop"
    /\ pos >= Windows(buf)
    /\ pc' = "done"
    /\ UNCHANGED <<restVars, mode, tableVars, buf, pos, start, prev, collectVars>>

NextLoop == ParseStep \/ ParseReturn

SpecLoop == InitLoop /\ [][NextLoop]_vars

\* ------------------------------------------------- Dataset::collect, read_dir

\* FileType::output
FileTypes == <<"Text", "Binary", "Jpeg", "Pdf", "Wav">>

output(typ) == (CHOOSE i \in DOMAIN FileTypes : FileTypes[i] = typ) - 1

\* path.extension() of a name without one, and one that is not UTF-8.
NoExt == "<none>"
NonUtf8 == "<non-utf8>"

\* The match of read_dir on the extension; "Unknown" is its `_` arm.
FileTypeOf(ext) ==
    CASE ext \in {"txt", "text", "TXT"} -> "Text"
      [] ext \in {NoExt, "bin", "exe", "dll", "so", "a"} -> "Binary"
      [] ext \in {"jpg", "jpeg"} -> "Jpeg"
      [] ext = "pdf" -> "Pdf"
      [] ext = "wav" -> "Wav"
      [] OTHER -> "Unknown"

Recognized(f) == f.ext # NonUtf8 /\ FileTypeOf(f.ext) # "Unknown"

\* The files of the corpora of the model: a text file, a file without
\* extension, a file with an extension read_dir does not know, a file whose
\* extension is not UTF-8.
ZeroRun == [i \in 1..MaxLen |-> 0]
OnePair == <<0, MaxByte>>

FileChoices ==
    {[kind |-> "file", ext |-> "txt", bytes |-> ZeroRun],
     [kind |-> "file", ext |-> NoExt, bytes |-> OnePair],
     [kind |-> "file", ext |-> "png", bytes |-> ZeroRun],
     [kind |-> "file", ext |-> NonUtf8, bytes |-> OnePair]}

FileLists == UNION {[1..n -> FileChoices] : n \in 0..MaxFiles}

DirOf(fs) == [kind |-> "dir", children |-> fs]

\* The files at the top level, or the first k of them in a subdirectory
\* that is the first entry.
Trees ==
    FileLists \cup
    UNION {{<<DirOf(SubSeq(fs, 1, k))>> \o SubSeq(fs, k + 1, Len(fs)) :
               k \in {j \in 0..1 : j <= Len(fs)}} : fs \in FileLists}

RECURSIVE FilesOf(_)
FilesOf(tree) ==
    IF tree = <<>> THEN <<>>
    ELSE IF Head(tree).kind = "dir"
         THEN FilesOf(Head(tree).children) \o FilesOf(Tail(tree))
         ELSE <<Head(tree)>> \o FilesOf(Tail(tree))

SelectRecognized(fs) == SelectSeq(fs, Recognized)

\* (len as f32 * 0.8) as usize: the product is rounded to nearest, ties to
\* even, at MantissaBits bits, then truncated.
F32Round(p) ==
    LET bits == Log2Floor(p) + 1
        shift == bits - MantissaBits
        q == p \div Pow2(shift)
        r == p % Pow2(shift)
        half == Pow2(shift - 1)
        up == r > half \/ (r = half /\ q % 2 = 1)
    IN  IF p = 0 \/ shift <= 0 THEN p
        ELSE (IF up THEN q + 1 ELSE q) * Pow2(shift)

\* (len as f32 * 0.8) as usize: len is exact in f32, the product is rounded
\* to 24 bits, and the cast truncates.
TrainLen(len) == F32Round(len * Frac08) \div Pow2(MantissaBits)

Occurrences(s, e) == Cardinality({i \in DOMAIN s : s[i] = e})

\* s holds the elements of t, each as often, in some order.
IsPermutation(s, t) ==
    /\ Len(s) = Len(t)
    /\ \A i \in DOMAIN t : Occurrences(s, t[i]) = Occurrences(t, t[i])

Shuffles(t) ==
    IF t = <<>> THEN {<<>>}
    ELSE {s \in [1..Len(t) -> {t[i] : i \in DOMAIN t}] : IsPermutation(s, t)}

\* Lines 76-98 of collect: the first train_len samples train, the rest test.
Split(fs, train_len) ==
    [train_inputs |-> [i \in 1..train_len |-> fs[i].input],
     train_outputs |-> [i \in 1..train_len |-> output(fs[i].typ)],
     test_inputs |-> [i \in 1..(Len(fs) - train_len) |-> fs[train_len + i].input],
     test_outputs |-> [i \in 1..(Len(fs) - train_len) |-> output(fs[train_len + i].typ)]]

InitCollect ==
    /\ mode = "collect"
    /\ dots = NewTable.dots
    /\ max = NewTable.max
    /\ tensor = NoTensor
    /\ parses = 0
    /\ only = <<>>
    /\ reused = FALSE
    /\ wiped = FALSE
    /\ LoopIdle
    /\ corpus \in Trees
    /\ todo = corpus
    /\ files = <<>>
    /\ outcome = "walking"
    /\ ds = NoDataset
    /\ PredictIdle
    /\ TrainIdle

Walking == mode = "collect" /\ outcome = "walking" /\ todo # <<>>

\* read_dir on a directory: its entries are visited before the next entry.
ReadDirDir ==
    /\ Walking
    /\ Head(todo).kind = "dir"
    /\ todo' = Head(todo).children \o Tail(todo)
    /\ UNCHANGED <<restVars, mode, tableVars, loopVars, corpus, files, outcome, ds>>

\* read_dir on a file whose extension matches no arm: warn, return Ok(()).
ReadDirSkip ==
    /\ Walking
    /\ Head(todo).kind = "file"
    /\ Head(todo).ext # NonUtf8
    /\ FileTypeOf(Head(todo).ext) = "Unknown"
    /\ todo' = Tail(todo)
    /\ UNCHANGED <<restVars, mode, tableVars, loopVars, corpus, files, outcome, ds>>

\* read_dir on a file of a known type: read, parse, export, clear, push.
ReadDirFile ==
    /\ Walking
    /\ Head(todo).kind = "file"
    /\ Recognized(Head(todo))
    /\ LET parsed == ParseAll(Table, Head(todo).bytes)
           input == ExportTable(parsed)
           cleared == ClearTable(parsed)
       IN  /\ dots' = cleared.dots
           /\ max' = cleared.max
           /\ files' = Append(files, [typ |-> FileTypeOf(Head(todo).ext), input |-> input])
    /\ todo' = Tail(todo)
    /\ reused' = TRUE
    /\ UNCHANGED <<restVars, mode, tensor, parses, only, wiped, loopVars, corpus, outcome, ds>>

\* entry.metadata()?, std::fs::read_dir(path)?, sub_dir? or std::fs::read(path)?
\* fails: the error is returned through every enclosing read_dir and collect.
ReadDirIoError ==
    /\ mode = "collect"
    /\ outcome = "walking"
    /\ todo # <<>> \/ corpus = <<>>
    /\ (todo # <<>> /\ Head(todo).kind = "file") => Head(todo).ext # NonUtf8
    /\ outcome' = "io_error"
    /\ UNCHANGED <<restVars, mode, tableVars, loopVars, corpus, todo, files, ds>>

\* s.to_str().expect(..) on an extension that is not UTF-8 panics.
ReadDirPanic ==
    /\ Walking
    /\ Head(todo).kind = "file"
    /\ Head(todo).ext = NonUtf8
    /\ outcome' = "panic"
    /\ UNCHANGED <<restVars, mode, tableVars, loopVars, corpus, todo, files, ds>>

\* Lines 69-98 of collect, after the walk: shuffle, split, pack.
CollectFinish ==
    /\ mode = "collect"
    /\ outcome = "walking"
    /\ todo = <<>>
    /\ \E shuffled \in Shuffles(files) :
          LET len == Len(shuffled)
              train_len == TrainLen(len)
              test_len == len - train_len
          IN  /\ files' = shuffled
              /\ IF train_len = 0 \/ test_len = 0
                 THEN outcome' = "too_small" /\ ds' = NoDataset
                 ELSE outcome' = "ok" /\ ds' = Split(shuffled, train_len)
    /\ UNCHANGED <<restVars, mode, tableVars, loopVars, corpus, todo>>

NextCollect ==
    \/ ReadDirDir
    \/ ReadDirSkip
    \/ ReadDirFile
    \/ ReadDirIoError
    \/ ReadDirPanic
    \/ CollectFinish

\* ------------------------------------------------- Network, FileType (ml.rs)

\* Network::new: ln2 = linear(N_HIDDEN_1, N_OUTPUT + 1), so forward returns
\* rows of this many logits.
OutputWidth == N_OUTPUT + 1

ScoreValues == 0..MaxScore

\* Tensor::argmax over the last dimension of one row: the index of the
\* first largest element (a later element wins only when strictly greater).
RECURSIVE ArgMaxFrom(_, _, _)
ArgMaxFrom(row, best, i) ==
    IF i >= Len(row) THEN best
    ELSE ArgMaxFrom(row, IF row[i + 1] > row[best + 1] THEN i ELSE best, i + 1)

ArgMax(row) == ArgMaxFrom(row, 0, 1)

\* FileType::from_prediction of ml.rs: Option<FileType> of a class index.
from_prediction(out) ==
    IF out \in 0..(Len(FileTypes) - 1) THEN FileTypes[out + 1] ELSE NoValue

\* The checkpoint files a command may find at the path it is given.
Checkpoints ==
    {MissingFile, MismatchFile, ParamsFile([origin |-> "file", attempt |-> 0, steps |-> 0])}

InitPredict ==
    /\ mode = "predict"
    /\ dots = NewTable.dots
    /\ max = NewTable.max
    /\ tensor = NoTensor
    /\ parses = 0
    /\ only = <<>>
    /\ reused = FALSE
    /\ wiped = FALSE
    /\ LoopIdle
    /\ CollectIdle
    /\ logits = <<>>
    /\ prediction = NoValue
    /\ file_type = NoValue
    /\ scores = <<>>
    /\ lib_type = NoValue
    /\ ppc = "load"
    /\ threshold = 0
    /\ testCount = 0
    /\ ckpt \in Checkpoints
    /\ params = NoParams
    /\ tpc = "idle"
    /\ result = NoValue
    /\ attempts = 0
    /\ retriedOn = NoValue
    /\ CallIdle

\* Network::load (called by the predict command): Network::new, then
\* varmap.load(path)?, whose error is returned; main exits on it.
NetworkLoad ==
    /\ mode = "predict"
    /\ ppc = "load"
    /\ IF ckpt.kind = "params"
       THEN params' = ckpt.params /\ ppc' = "parse"
       ELSE params' = params /\ ppc' = "load_error"
    /\ UNCHANGED <<mode, tableVars, loopVars, collectVars, logits, prediction, file_type,
                   scores, lib_type, threshold, testCount, ckpt, tpc, result, attempts,
                   retriedOn, callVars>>

\* The predict command reads the file and parses it into a new table.
PredictParse ==
    /\ mode = "predict"
    /\ ppc = "parse"
    /\ \E bytes \in Buffers :
          /\ dots' = ParseAll(NewTable, bytes).dots
          /\ max' = ParseAll(NewTable, bytes).max
    /\ ppc' = "predict"
    /\ UNCHANGED <<mode, tensor, parses, only, reused, wiped, loopVars, collectVars, logits,
                   prediction, file_type, scores, lib_type, trainVars>>

\* Network::predict, then FileType::from_prediction in main: the logits
\* forward returns depend on the loaded weights and may be any row.
Predict ==
    /\ mode = "predict"
    /\ ppc = "predict"
    /\ tensor' = ExportTable(Table)
    /\ \E row \in [1..OutputWidth -> ScoreValues] :
          /\ logits' = row
          /\ prediction' = ArgMax(row)
          /\ file_type' = from_prediction(ArgMax(row))
    /\ ppc' = "done"
    /\ UNCHANGED <<mode, dots, max, parses, only, reused, wiped, loopVars, collectVars,
                   scores, lib_type, trainVars>>

\* ------------------------------------------------------ FileType (lib.rs)

LibFileTypes == <<"Text", "Binary", "Png", "Wav", "Ogg">>

\* Iterator::max_by over the enumerated scores with total_cmp: of several
\* largest elements the last is returned (a later element wins unless the
\* earlier one is strictly greater).
RECURSIVE MaxByFrom(_, _, _)
MaxByFrom(out, best, i) ==
    IF i >= Len(out) THEN best
    ELSE MaxByFrom(out, IF out[best + 1] > out[i + 1] THEN best ELSE i, i + 1)

max_by(out) == MaxByFrom(out, 0, 1)

\* FileType::from_prediction of lib.rs, on a non-empty score slice.
from_prediction_lib(out) ==
    IF max_by(out) \in 0..(Len(LibFileTypes) - 1)
    THEN LibFileTypes[max_by(out) + 1]
    ELSE NoValue

InitScores ==
    /\ mode = "scores"
    /\ dots = NewTable.dots
    /\ max = NewTable.max
    /\ tensor = NoTensor
    /\ parses = 0
    /\ only = <<>>
    /\ reused = FALSE
    /\ wiped = FALSE
    /\ LoopIdle
    /\ CollectIdle
    /\ PredictIdle
    /\ TrainIdle

\* A caller hands a 5-element score array to from_prediction of lib.rs.
FromPrediction ==
    /\ mode = "scores"
    /\ \E out \in [1..N_OUTPUT -> ScoreValues] :
          /\ scores' = out
          /\ lib_type' = from_prediction_lib(out)
    /\ UNCHANGED <<mode, tableVars, loopVars, collectVars, logits, prediction, file_type,
                   ppc, trainVars>>

NextPredict == NetworkLoad \/ PredictParse \/ Predict \/ FromPrediction

InitClassify == InitPredict \/ InitScores

SpecPredict == InitClassify /\ [][NextPredict]_vars

\* ------------------------------------------------ train (ml.rs), main.rs

\* The --accuracy values of the model; 95.0 is the default.
Thresholds == {0, 50, MinAccuracy}

\* 100.0 * (sum_ok / test_outputs.dims1() as f32)
Accuracy(sum_ok, n) == F32Div(Full * sum_ok, n)

\* a < t, for a fraction a and a whole number of percent t.
Below(a, t) == a.n < t * a.d

\* A loop without the break: no accuracy ends it early.
NeverStops(a) == FALSE

\* if final_accuracy == 100.0 { break; }
ReachedFull(a) == a.n = Full * a.d

\* if final_accuracy < 95.0 { Err(..) } else { Ok(model) }
Decide(a) == IF Below(a, MinAccuracy) THEN "training_failed" ELSE "ok"

InitTrain ==
    /\ mode = "train"
    /\ dots = NewTable.dots
    /\ max = NewTable.max
    /\ tensor = NoTensor
    /\ parses = 0
    /\ only = <<>>
    /\ reused = FALSE
    /\ wiped = FALSE
    /\ LoopIdle
    /\ CollectIdle
    /\ PredictIdle
    /\ threshold \in Thresholds
    /\ testCount \in 1..MaxTest
    /\ ckpt \in Checkpoints
    /\ params = NoParams
    /\ tpc = "args"
    /\ result = NoValue
    /\ attempts = 0
    /\ retriedOn = NoValue
    /\ CallIdle

Training == mode = "train"

\* main, lines 68-87: an --accuracy below 1 ends the command; otherwise the
\* dataset is collected and the loop that calls train begins.
MainArgs ==
    /\ Training
    /\ tpc = "args"
    /\ tpc' = IF threshold < 1 THEN "exit_error" ELSE "call"
    /\ UNCHANGED <<mode, retriedOn, tableVars, loopVars, collectVars, predictVars, threshold, testCount,
                   ckpt, params, result, attempts, callVars>>

\* train, lines 179-183: a new VarMap, and Network::new draws the
\* parameters at random.
TrainNew ==
    /\ Training
    /\ tpc = "call"
    /\ attempts' = attempts + 1
    /\ params' = [origin |-> "random", attempt |-> attempts + 1, steps |-> 0]
    /\ tpc' = "load"
    /\ result' = NoValue
    /\ epoch' = 0
    /\ final_accuracy' = F32Zero
    /\ gradSteps' = 0
    /\ evals' = 0
    /\ lastSumOk' = 0
    /\ hit100' = FALSE
    /\ stepAfter100' = FALSE
    /\ loadFailed' = "no"
    /\ saveFailed' = FALSE
    /\ UNCHANGED <<mode, retriedOn, tableVars, loopVars, collectVars, predictVars, threshold, testCount,
                   ckpt>>

\* train, lines 184-189: _ = varmap.load(&path) discards the error of a
\* load that fails; such a load leaves the parameters as drawn or partly
\* overwritten.  The loop then starts at epoch 1.
TrainLoad ==
    /\ Training
    /\ tpc = "load"
    /\ \/ /\ ckpt.kind = "params"
          /\ params' = ckpt.params
          /\ loadFailed' = "no"
       \/ /\ ckpt.kind = "missing"
          /\ params' = params
          /\ loadFailed' = "missing"
       \/ /\ ckpt.kind = "mismatch"
          /\ params' \in {params, [params EXCEPT !.origin = "partial"]}
          /\ loadFailed' = "mismatch"
    /\ epoch' = 1
    /\ final_accuracy' = F32Zero
    /\ tpc' = "step"
    /\ UNCHANGED <<mode, retriedOn, tableVars, loopVars, collectVars, predictVars, threshold, testCount,
                   ckpt, result, attempts, gradSteps, evals, lastSumOk, hit100,
                   stepAfter100, saveFailed>>

\* train, lines 190-193: forward on the training partition, the loss, one
\* sgd.backward_step.
EpochStep ==
    /\ Training
    /\ tpc = "step"
    /\ params' = [params EXCEPT !.steps = @ + 1]
    /\ gradSteps' = gradSteps + 1
    /\ stepAfter100' = (stepAfter100 \/ hit100)
    /\ tpc' = "eval"
    /\ UNCHANGED <<mode, retriedOn, tableVars, loopVars, collectVars, predictVars, threshold, testCount,
                   ckpt, result, attempts, epoch, final_accuracy, evals, lastSumOk, hit100,
                   loadFailed, saveFailed>>

\* train, lines 194-211: the test evaluation (any number of the test samples
\* may be classified right), final_accuracy, the break at 100%, the end of
\* the loop after EPOCHS epochs.
EpochEval ==
    /\ Training
    /\ tpc = "eval"
    /\ \E sum_ok \in 0..testCount :
          /\ final_accuracy' = Accuracy(sum_ok, testCount)
          /\ lastSumOk' = sum_ok
          /\ hit100' = (hit100 \/ sum_ok = testCount)
          /\ IF ReachedFull(Accuracy(sum_ok, testCount)) \/ epoch = EPOCHS
             THEN tpc' = "save" /\ epoch' = epoch
             ELSE tpc' = "step" /\ epoch' = epoch + 1
    /\ evals' = evals + 1
    /\ UNCHANGED <<mode, retriedOn, tableVars, loopVars, collectVars, predictVars, threshold, testCount,
                   ckpt, params, result, attempts, gradSteps, stepAfter100, loadFailed,
                   saveFailed>>

\* A tensor or device operation of train fails; `?` returns its error.
TrainError ==
    /\ Training
    /\ tpc \in {"load", "step", "eval"}
    /\ result' = "error"
    /\ tpc' = "returned"
    /\ UNCHANGED <<mode, retriedOn, tableVars, loopVars, collectVars, predictVars, threshold, testCount,
                   ckpt, params, attempts, callVars>>

\* train, line 212: _ = varmap.save(&path) discards the error of a save
\* that fails; such a save leaves the file as it was.
TrainSave ==
    /\ Training
    /\ tpc = "save"
    /\ \/ ckpt' = ParamsFile(params) /\ saveFailed' = FALSE
       \/ ckpt' = ckpt /\ saveFailed' = TRUE
    /\ tpc' = "decide"
    /\ UNCHANGED <<mode, retriedOn, tableVars, loopVars, collectVars, predictVars, threshold, testCount,
                   params, result, attempts, epoch, final_accuracy, gradSteps, evals,
                   lastSumOk, hit100, stepAfter100, loadFailed>>

\* train, lines 213-217.
TrainDecide ==
    /\ Training
    /\ tpc = "decide"
    /\ result' = Decide(final_accuracy)
    /\ tpc' = "returned"
    /\ UNCHANGED <<mode, retriedOn, tableVars, loopVars, collectVars, predictVars, threshold, testCount,
                   ckpt, params, attempts, callVars>>

\* main, lines 90-92: Ok(model) => break.
MainBreak ==
    /\ Training
    /\ tpc = "returned"
    /\ result = "ok"
    /\ tpc' = "trained"
    /\ UNCHANGED <<mode, retriedOn, tableVars, loopVars, collectVars, predictVars, threshold, testCount,
                   ckpt, params, result, attempts, callVars>>

\* main, lines 93-96: Err(err) => error!("{err}"), and the loop calls train
\* again.
MainRetry ==
    /\ Training
    /\ tpc = "returned"
    /\ result # "ok"
    /\ attempts < MaxAttempts
    /\ tpc' = "call"
    /\ retriedOn' = result
    /\ UNCHANGED <<mode, tableVars, loopVars, collectVars, predictVars, threshold, testCount,
                   ckpt, params, result, attempts, callVars>>

NextTrain ==
    \/ MainArgs
    \/ TrainNew
    \/ TrainLoad
    \/ EpochStep
    \/ EpochEval
    \/ TrainError
    \/ TrainSave
    \/ TrainDecide
    \/ MainBreak
    \/ MainRetry

SpecTrain == InitTrain /\ [][NextTrain]_vars

\* ------------------------------------------------------------ specifications

\* The library as its callers use it: a table driven call by call, or
\* Dataset::collect over a corpus.
Init == InitTable \/ InitCollect

Next == NextTable \/ NextCollect

Spec == Init /\ [][Next]_vars

\* ------------------------------------------------------------------- claims

AllZero(v) == \A i \in DOMAIN v : v[i] = F32Zero

\* C1: after parse(bytes) on an empty table every value of export() is a
\* finite number in [0, 1], and the vector is all zeros when bytes holds
\* fewer than 2 bytes.
C1_ExportInUnitInterval ==
    (mode = "table" /\ parses = 1 /\ tensor # NoTensor) =>
        /\ \A i \in DOMAIN tensor : InUnit(tensor[i])
        /\ Len(only) < 2 => AllZero(tensor)

\* The number of positions i of the first n windows with bytes[i] = x and
\* bytes[i + 1] = y.
Count(bytes, n, x, y) ==
    Cardinality({i \in 1..n : bytes[i] = x /\ bytes[i + 1] = y})

\* min(ceiling, c + n) for 0 <= n <= 65536.
MinCeil(c, n) ==
    IF c[2] + n <= LimbMax THEN <<c[1], c[2] + n>>
    ELSE IF c[1] = LimbMax THEN Ceiling
    ELSE <<c[1] + 1, c[2] + n - LimbMax - 1>>

\* C2: during and after parse(bytes) the cell of every pair (x, y), dots[y][x],
\* is min(ceiling, what it held before + the number of positions consumed so
\* far that hold the pair): on the empty table min(ceiling, count); no cell
\* is below what it was an iteration earlier, a cell at the ceiling stays
\* there, and the call ends after Len - 1 iterations (0 when Len < 2).
C2_ParseCountsPairs ==
    mode = "parse" =>
        /\ \A x \in Bytes, y \in Bytes :
              /\ dots[y][x] = MinCeil(start[y][x], Count(buf, pos, x, y))
              /\ CellLeq(prev[y][x], dots[y][x])
              /\ start[y][x] = Ceiling => dots[y][x] = Ceiling
        /\ pc = "done" => pos = (IF Len(buf) < 2 THEN 0 ELSE Len(buf) - 1)

\* A parse call that has ended on a table where one pair occurred twice and
\* another counter sat one below the ceiling before its pair occurred.
C2_Witness ==
    /\ mode = "parse"
    /\ pc = "done"
    /\ \E x \in Bytes, y \in Bytes :
          start[y][x] = Zero /\ Count(buf, pos, x, y) = 2 /\ dots[y][x] = <<0, 2>>

C2_WitnessCeiling ==
    /\ mode = "parse"
    /\ pc = "done"
    /\ \E x \in Bytes, y \in Bytes :
          /\ start[y][x] = <<LimbMax, LimbMax - 1>>
          /\ Count(buf, pos, x, y) = 2
          /\ dots[y][x] = Ceiling

\* The sample a fresh table gives for a file: new(), parse(bytes), export().
FreshSample(f) ==
    [typ |-> FileTypeOf(f.ext), input |-> ExportTable(ParseAll(NewTable, f.bytes))]

\* The samples of the recognized files of the corpus, in walk order.
FreshSamples ==
    LET rec == SelectRecognized(FilesOf(corpus))
    IN  [i \in DOMAIN rec |-> FreshSample(rec[i])]

\* C3: after any calls, clear() then parse(bytes) leaves the table and its
\* export() as BinaryTable::new() then parse(bytes) does; and every sample
\* the corpus walker has built with its one table is the export of a fresh
\* table that parsed that file's bytes.
C3_ClearThenParseIsFresh ==
    /\ (mode = "table" /\ reused /\ parses = 1) =>
          /\ Table = ParseAll(NewTable, only)
          /\ tensor # NoTensor => tensor = ExportTable(ParseAll(NewTable, only))
    /\ (mode = "collect" /\ outcome = "walking") =>
          /\ Len(files) <= Len(FreshSamples)
          /\ \A i \in DOMAIN files : files[i] = FreshSamples[i]

C3_Witness ==
    /\ mode = "table"
    /\ wiped
    /\ parses = 1
    /\ Len(only) >= 2
    /\ tensor # NoTensor


\* What the original claim and the amended one say of a collect call that
\* has ended, with N the number of files of the tree of a known type.
SplitAsClaimed ==
    LET N == Len(SelectRecognized(FilesOf(corpus)))
    IN  /\ N >= 2 =>
              /\ outcome = "ok"
              /\ ds # NoDataset
              /\ Len(ds.train_outputs) = (4 * N) \div 5
              /\ Len(ds.train_outputs) + Len(ds.test_outputs) = N
              /\ Len(ds.train_outputs) > 0 /\ Len(ds.test_outputs) > 0
              /\ Len(ds.train_inputs) = Len(ds.train_outputs)
              /\ Len(ds.test_inputs) = Len(ds.test_outputs)
              /\ IsPermutation(
                    [i \in 1..N |->
                        IF i <= Len(ds.train_outputs)
                        THEN <<ds.train_outputs[i], ds.train_inputs[i]>>
                        ELSE <<ds.test_outputs[i - Len(ds.train_outputs)],
                               ds.test_inputs[i - Len(ds.train_outputs)]>>],
                    [i \in 1..N |-> <<output(FreshSamples[i].typ), FreshSamples[i].input>>])
        /\ N < 2 => outcome = "too_small" /\ ds = NoDataset

\* C4: for every tree, files of unknown extension are passed over without
\* ending the walk, and a collect call that meets no I/O error ends with the
\* 80/20 split of the N files of known type (N >= 2) or with the
\* dataset-too-small error (N < 2).
C4_SkipsAndSplits ==
    (mode = "collect" /\ outcome \notin {"walking", "io_error"}) => SplitAsClaimed

\* The same of the collect calls that return: those that meet no I/O error
\* and no extension that is not UTF-8.
C4_ReturnedSplits ==
    (mode = "collect" /\ outcome \in {"ok", "too_small"}) => SplitAsClaimed

\* collect has returned a Dataset for a tree of 5 recognized files and an
\* unrecognized one that the walk met before the last recognized file.
C4_ReturnedWitness ==
    /\ mode = "collect"
    /\ outcome = "ok"
    /\ Len(SelectRecognized(FilesOf(corpus))) = 5
    /\ Len(ds.train_outputs) = 4
    /\ \E i \in DOMAIN FilesOf(corpus) :
          /\ ~Recognized(FilesOf(corpus)[i])
          /\ i < Len(FilesOf(corpus))


\* The lowest index at which a row holds its largest value.
FirstLargest(row) ==
    CHOOSE i \in 0..(Len(row) - 1) :
        /\ \A j \in 0..(Len(row) - 1) : row[j + 1] <= row[i + 1]
        /\ \A j \in 0..(i - 1) : row[j + 1] < row[i + 1]

\* C5: from_prediction(scores) of lib.rs returns the class of the lowest
\* index holding the largest score, the class arg-max gives for the scores.
C5_FirstIndexTieBreak ==
    (mode = "scores" /\ scores # <<>>) =>
        /\ lib_type = LibFileTypes[FirstLargest(scores) + 1]
        /\ lib_type = LibFileTypes[ArgMax(scores) + 1]

\* C6: forward returns N_OUTPUT logits, every class index predict returns
\* lies in 0..N_OUTPUT-1, and from_prediction maps it to a file type.
C6_PredictionIsAClass ==
    (mode = "predict" /\ ppc = "done") =>
        /\ prediction \in 0..(N_OUTPUT - 1)
        /\ file_type # NoValue

\* The first part of C6 alone: the output layer has N_OUTPUT units.
C6_OutputLayerWidth ==
    (mode = "predict" /\ ppc = "done") => Len(logits) = N_OUTPUT

\* train has returned the classifier or the training-failed error.
Decided == mode = "train" /\ tpc = "returned" /\ result \in {"ok", "training_failed"}

\* C7: a checkpoint that fails to load is a hard failure in train: no
\* gradient step is taken after a load that failed on a mismatch of shapes,
\* and train does not return the classifier or the training-failed error.
C7_FailedLoadIsHardFailure ==
    (mode = "train" /\ loadFailed = "mismatch") =>
        /\ gradSteps = 0
        /\ result \notin {"ok", "training_failed"}

\* The part of C7 about Network::load: after a load that failed the predict
\* command has no parameters and makes no prediction.
C7_NetworkLoadIsHardFailure ==
    (mode = "predict" /\ ckpt.kind # "params" /\ ppc # "load") =>
        /\ ppc = "load_error"
        /\ params = NoParams
        /\ prediction = NoValue

\* What train returns if it compares with the --accuracy value.
DecideByThreshold(a) == IF Below(a, threshold) THEN "training_failed" ELSE "ok"

\* C8: train returns the training-failed error when the final accuracy is
\* below the --accuracy value, and the classifier otherwise.
C8_FailsBelowConfiguredThreshold ==
    Decided => result = DecideByThreshold(final_accuracy)

\* C9: a call of train takes at most EPOCHS gradient steps, the step of an
\* epoch comes before its evaluation, no step follows an evaluation of
\* exactly 100%, and the decision is made on the accuracy of the last
\* evaluation.
C9_EpochLoop ==
    mode = "train" =>
        /\ gradSteps <= EPOCHS
        /\ evals <= gradSteps /\ gradSteps <= evals + 1
        /\ tpc = "eval" => gradSteps = evals + 1
        /\ (tpc \in {"step", "save", "decide"} \/ Decided) => gradSteps = evals
        /\ ~stepAfter100
        /\ tpc \in {"save", "decide"} =>
              /\ evals = epoch
              /\ hit100 \/ evals = EPOCHS
              /\ hit100 <=> lastSumOk = testCount
        /\ Decided =>
              /\ final_accuracy = Accuracy(lastSumOk, testCount)
              /\ result = "training_failed" <=> Full * lastSumOk < MinAccuracy * testCount

\* train has stopped at 100% in its third epoch and returned the classifier.
C9_WitnessEarlyStop ==
    /\ Decided
    /\ result = "ok"
    /\ hit100
    /\ gradSteps = 3
    /\ evals = 3

\* train has run all EPOCHS epochs and returned the training-failed error.
C9_WitnessExhausted ==
    /\ Decided
    /\ result = "training_failed"
    /\ gradSteps = EPOCHS

\* C10: when train returns the classifier or the training-failed error, the
\* checkpoint holds the parameters of that call.
C10_CheckpointHoldsAttempt ==
    Decided => ckpt = ParamsFile(params)

\* The same of the calls whose save wrote the file.
C10_SavedBeforeDecision ==
    /\ (mode = "train" /\ tpc = "decide" /\ ~saveFailed) => ckpt = ParamsFile(params)
    /\ (Decided /\ ~saveFailed) => ckpt = ParamsFile(params)

\* The epoch loop of a train call is about to take its first gradient step,
\* and main's loop made that call after a training-failed error.
RetryLoopStart ==
    /\ mode = "train"
    /\ tpc = "step"
    /\ gradSteps = 0
    /\ retriedOn = "training_failed"

\* C11: a train call that main's loop makes after a training-failed error
\* starts its epoch loop with the parameters Network::new drew at random in
\* that call, with no gradient step of an earlier call in them.
C11_RetryStartsFresh ==
    RetryLoopStart =>
        params = [origin |-> "random", attempt |-> attempts, steps |-> 0]

\* The second half of C11 alone: the parameters at the start of the loop
\* carry no gradient step of an earlier call.
C11_NotFromEarlierAttempt ==
    RetryLoopStart => params.steps = 0

\* C12: main's loop calls train again only after the training-failed error;
\* after any other error of train the command ends.
C12_RetriesOnlyOnTrainingFailed ==
    mode = "train" => retriedOn \in {NoValue, "training_failed"}

====
